---- MODULE Spec2Model ----
(***************************************************************************)
(* Model of src/market_tracker_dashboard.py: the retrying single-ticker    *)
(* fetch update_ticker_data, and the thread-pool fan-out fetch_all_latest. *)
(***************************************************************************)
EXTENDS Integers, Sequences, FiniteSets, TLC

(***************************************************************************)
(* Bounds of the model.                                                    *)
(***************************************************************************)
\* prices served by the data source stub are the integers 0..MaxPrice
MaxPrice == 2
\* a response of the data source stub holds at most MaxRows rows
MaxRows == 2
\* a direct call of update_ticker_data passes retries in 1..MaxRetries
MaxRetries == 3
\* the batch is run on the first 1..NumTickers tickers of the list
NumTickers == 4
\* tickers get_latest_data fetches in the runs of the cached function
CacheTickers == 2
\* script runs that reach `latest_data = get_latest_data()`
MaxCalls == 3

(***************************************************************************)
(* Program constants.                                                      *)
(***************************************************************************)
\* def update_ticker_data(..., retries=3, ...)
DefaultRetries == 3
\* ThreadPoolExecutor(max_workers=3)
max_workers == 3
\* ... * 100 in the Upward_Move_% expression
Hundred == 100
\* line 73, `@st.cache_data(ttl=600)`: seconds an entry of the cache lives
ttl == 600

\* TOP_SP500_TICKERS (in list order)
TOP_SP500_TICKERS ==
    <<"NVDA", "MSFT", "AAPL", "AMZN", "META", "GOOGL", "AVGO", "BRK.B", "TSLA", "JPM">>

(***************************************************************************)
(* Cells of a DataFrame.  A float64 is a rational n/d (d > 0), NaN, +inf   *)
(* or -inf; an object cell may also be a string, either one that spells    *)
(* the number n ("numstr") or one that spells no number ("text", "N/A").   *)
(***************************************************************************)
Num(v)    == [k |-> "num", n |-> v, d |-> 1]
NumStr(v) == [k |-> "numstr", n |-> v, d |-> 1]
NaN       == [k |-> "nan", n |-> 0, d |-> 1]
PosInf    == [k |-> "inf", n |-> 1, d |-> 1]
NegInf    == [k |-> "inf", n |-> -1, d |-> 1]
Text      == [k |-> "text", n |-> 0, d |-> 1]

IsNum(c) == c.k = "num"
IsNaN(c) == c.k = "nan"
IsInf(c) == c.k = "inf"
Abs(i)   == IF i < 0 THEN -i ELSE i
Sign(i)  == IF i < 0 THEN -1 ELSE IF i > 0 THEN 1 ELSE 0

\* pd.to_numeric(col, errors='coerce'), cell by cell
to_numeric(c) ==
    CASE c.k = "numstr" -> Num(c.n)
      [] c.k = "text"   -> NaN
      [] OTHER          -> c

\* float64 a - b
FSub(a, b) ==
    CASE IsNaN(a) \/ IsNaN(b)        -> NaN
      [] IsInf(a) /\ IsInf(b)        -> IF a.n = b.n THEN NaN ELSE a
      [] IsInf(a)                    -> a
      [] IsInf(b)                    -> [b EXCEPT !.n = -b.n]
      [] OTHER -> [k |-> "num", n |-> a.n * b.d - b.n * a.d, d |-> a.d * b.d]

\* float64 a / b, as pandas divides (no ZeroDivisionError: 0/0 is NaN, x/0 is +-inf)
FDiv(a, b) ==
    CASE IsNaN(a) \/ IsNaN(b)        -> NaN
      [] IsInf(a) /\ IsInf(b)        -> NaN
      [] IsInf(a)                    -> IF b.n < 0 THEN [a EXCEPT !.n = -a.n] ELSE a
      [] IsInf(b)                    -> Num(0)
      [] b.n = 0 -> IF a.n = 0 THEN NaN ELSE IF a.n > 0 THEN PosInf ELSE NegInf
      [] OTHER -> [k |-> "num", n |-> a.n * b.d * Sign(b.n), d |-> a.d * Abs(b.n)]

\* float64 a * m for an integer m > 0
FScale(a, m) == IF IsNum(a) THEN [a EXCEPT !.n = a.n * m] ELSE a

\* the replace left out
replace_inf_left_out(c) == c

\* Series.replace([inf, -inf], 0), cell by cell
replace_inf(c) == IF IsInf(c) THEN Num(0) ELSE c

\* Series.fillna(0), cell by cell
fillna(c) == IF IsNaN(c) THEN Num(0) ELSE c

(***************************************************************************)
(* DataFrames: [columns |-> set of column names, rows |-> sequence of      *)
(* functions columns -> cell].  pd.DataFrame() has no column and no row.   *)
(***************************************************************************)
EmptyFrame == [columns |-> {}, rows |-> <<>>]

empty(data) == data.columns = {} \/ Len(data.rows) = 0

required_cols == {"Date", "Open", "High", "Low", "Close"}
price_cols    == {"Open", "High", "Low", "Close"}

\* data[[col for col in required_cols if col in data.columns]]
select_required(data) ==
    LET keep == required_cols \cap data.columns
    IN  [columns |-> keep,
         rows    |-> [i \in 1..Len(data.rows) |-> [c \in keep |-> data.rows[i][c]]]]

\* for col in ['Open','High','Low','Close']: if col in data.columns: to_numeric
coerce_prices(data) ==
    [data EXCEPT !.rows =
        [i \in 1..Len(data.rows) |->
            [c \in data.columns |->
                IF c \in price_cols THEN to_numeric(data.rows[i][c])
                                    ELSE data.rows[i][c]]]]

\* dropna(subset=[...]) raises KeyError when a column of the subset is absent
dropna_raises(data) == ~(price_cols \subseteq data.columns)

\* a subset that leaves out 'Close'
RowHasNaN_without_close(r) == \E c \in price_cols \ {"Close"} : IsNaN(r[c])

RowHasNaN(r) == \E c \in price_cols : IsNaN(r[c])

\* data.dropna(subset=['Open','High','Low','Close'])
dropna(data) ==
    [data EXCEPT !.rows = SelectSeq(data.rows, LAMBDA r : ~RowHasNaN(r))]

\* the operands swapped
Upward_Move_swapped(r) == FSub(r["Low"], r["High"])

\* Upward_Move = High - Low
Upward_Move(r) == FSub(r["High"], r["Low"])

\* Upward_Move_% = (Upward_Move / Low).replace([inf, -inf], 0).fillna(0) * 100
Upward_Move_Pct(r) ==
    FScale(fillna(replace_inf(FDiv(Upward_Move(r), r["Low"]))), Hundred)

\* Daily_Range = Close - Open
Daily_Range(r) == FSub(r["Close"], r["Open"])

AddCol(r, name, v) ==
    [c \in (DOMAIN r) \cup {name} |-> IF c = name THEN v ELSE r[c]]

\* the three derived columns, added in source order
derive(data) ==
    [columns |-> data.columns \cup {"Upward_Move", "Upward_Move_%", "Daily_Range"},
     rows    |-> [i \in 1..Len(data.rows) |->
                    LET r == data.rows[i]
                    IN  AddCol(AddCol(AddCol(r, "Upward_Move", Upward_Move(r)),
                                      "Upward_Move_%", Upward_Move_Pct(r)),
                               "Daily_Range", Daily_Range(r))]]

\* data.iloc[[0]]: the first row instead of the last
iloc_first(data) == [data EXCEPT !.rows = <<data.rows[1]>>]

\* data.iloc[[-1]].reset_index(drop=True)
iloc_last(data) == [data EXCEPT !.rows = <<data.rows[Len(data.rows)]>>]

(***************************************************************************)
(* The data source (yf.download).  A response is a raw frame indexed by    *)
(* date, in ascending date order (yfinance sorts the index), with the four *)
(* price columns and a Volume column; or the source raises.                *)
(***************************************************************************)
raw_cols == price_cols \cup {"Volume"}

\* data.reset_index(): the date index becomes the column 'Date'
reset_index(raw) ==
    [columns |-> raw.columns \cup {"Date"},
     rows    |-> [i \in 1..Len(raw.rows) |->
                    [c \in raw.columns \cup {"Date"} |->
                        IF c = "Date" THEN Num(raw.index[i]) ELSE raw.rows[i][c]]]]

RawRow(o, h, l, c) ==
    [x \in raw_cols |->
        CASE x = "Open" -> o [] x = "High" -> h [] x = "Low" -> l
          [] x = "Close" -> c [] OTHER -> Num(0)]

\* a raw frame of the given rows, dated 1, 2, ... in order
RawFrame(rows) ==
    [index |-> [i \in 1..Len(rows) |-> i], columns |-> raw_cols, rows |-> rows]

\* the same frame without its 'Close' column
WithoutClose(raw) ==
    [raw EXCEPT !.columns = raw_cols \ {"Close"},
                !.rows = [i \in 1..Len(raw.rows) |->
                            [c \in raw_cols \ {"Close"} |-> raw.rows[i][c]]]]

Served(raw) == [kind |-> "frame", frame |-> raw, exc |-> "none"]
Raised(e)   == [kind |-> "raise", frame |-> RawFrame(<<>>), exc |-> e]

\* exceptions the attempt body can raise
Exceptions == {"ConnectionError", "KeyError"}

\* the rows the stub serves: every row with Open 0, Close 1 and High, Low in
\* 0..MaxPrice; a row whose Close is the string "1"; and, for each price
\* column, a row where it is missing (NaN) and one where it is the text "N/A"
CleanRows == {RawRow(Num(0), Num(h), Num(l), Num(1)) : h \in 0..MaxPrice, l \in 0..MaxPrice}
DirtyRows ==
    {[RawRow(Num(1), Num(1), Num(1), Num(1)) EXCEPT ![c] = v] : c \in price_cols, v \in {NaN, Text}}
StubRows == CleanRows \cup DirtyRows \cup {RawRow(Num(0), Num(1), Num(1), NumStr(1))}

\* every response of at most MaxRows such rows, a frame that lacks 'Close',
\* and a transport fault
AllOutcomes ==
    {Served(RawFrame(rows)) : rows \in UNION {[1..n -> StubRows] : n \in 0..MaxRows}}
    \cup {Served(WithoutClose(RawFrame(<<RawRow(Num(0), Num(1), Num(1), Num(1))>>)))}
    \cup {Raised("ConnectionError")}

\* position of a ticker in TOP_SP500_TICKERS
TickerNo(t) == CHOOSE i \in 1..Len(TOP_SP500_TICKERS) : TOP_SP500_TICKERS[i] = t

\* the good response a per-ticker stub holds for ticker t: two days, the
\* second with High = position of t, Open given as the string "1"
GoodFrame(t) ==
    RawFrame(<<RawRow(Num(1), Num(2), Num(1), Num(2)),
               RawRow(NumStr(1), Num(TickerNo(t)), Num(1), Num(1))>>)

\* a per-ticker stub: fault, empty response, all rows invalid, missing column,
\* or the ticker's good response
TickerOutcomes(t) ==
    {Raised("ConnectionError"),
     Served(RawFrame(<<>>)),
     Served(RawFrame(<<RawRow(Num(1), Num(1), Num(1), Text)>>)),
     Served(WithoutClose(RawFrame(<<RawRow(Num(0), Num(1), Num(1), Num(1))>>))),
     Served(GoodFrame(t))}

(***************************************************************************)
(* One attempt of update_ticker_data: the body of the try block, from the  *)
(* response of yf.download to `return data`, `continue`, or an exception.  *)
(***************************************************************************)
Returns(data) == [st |-> "return", data |-> data, exc |-> "none"]
Continues     == [st |-> "continue", data |-> EmptyFrame, exc |-> "none"]
Raises(e)     == [st |-> "raise", data |-> EmptyFrame, exc |-> e]

\* `if latest_only: data = data.iloc[[-1]]...`
reduce(data, latest_only) == IF latest_only THEN iloc_last(data) ELSE data

try_body(o, latest_only) ==
    IF o.kind = "raise" THEN Raises(o.exc)
    ELSE IF empty(o.frame) THEN Continues
    ELSE LET numeric == coerce_prices(select_required(reset_index(o.frame)))
         IN  IF dropna_raises(numeric) THEN Raises("KeyError")
             ELSE LET clean == dropna(numeric)
                  IN  IF empty(clean) THEN Continues
                      ELSE Returns(reduce(derive(clean), latest_only))

\* a handler that names the transport fault only
caught_transport_only(e) == e = "ConnectionError"

\* `except Exception as e` catches e
caught(e) == e \in Exceptions

\* a loop that runs one iteration too many
has_next_one_more(attempt, retries) == attempt + 1 <= retries

\* `for attempt in range(retries)`: is there an iteration after `attempt`?
has_next(attempt, retries) == attempt + 1 < retries

(***************************************************************************)
(* State.                                                                  *)
(***************************************************************************)
VARIABLES
    feed,         \* feed[t]: the outcomes yf.download(t) can have (the stub)
    top_tickers,  \* argument of fetch_all_latest; <<>> when update_ticker_data is called directly
    latest_only,  \* argument of the update_ticker_data calls
    retries,      \* argument of the update_ticker_data calls
    mpc,          \* position of the calling thread
    futures,      \* futures[i]: the ticker the dict `futures` holds for the i-th future
    ticker,       \* ticker[i]: the ticker the i-th call of update_ticker_data fetches
    pc,           \* pc[i]: position of the i-th call of update_ticker_data
    attempt,      \* attempt[i]: the loop variable of the i-th call
    calls,        \* calls[i]: how many times the i-th call has called yf.download
    df,           \* df[i]: what the i-th call returned (the result of the i-th future)
    collected,    \* the futures the collecting loop has handled
    all_data,     \* the dict all_data, in insertion order: a sequence of [Ticker, df]
    ret,          \* what fetch_all_latest returned
    fn,           \* the function the calling thread entered
    warned,       \* warned[i]: how many "failed after N attempts" warnings the i-th call emitted
    full_data_list, \* the list full_data_list of the 30-day fetch
    full_data,    \* the frame full_data of the 30-day fetch
    cache,        \* the st.cache_data entry of get_latest_data: <<>> or <<value>>
    age,          \* seconds since the entry was stored
    ncalls,       \* how many times get_latest_data has been called
    fetches,      \* how many times the body of get_latest_data has run
    latest_data   \* what the last call of get_latest_data returned

full_vars  == <<full_data_list, full_data>>
cache_vars == <<cache, age, ncalls, fetches, latest_data>>

vars == <<feed, top_tickers, latest_only, retries, mpc, futures, ticker,
          pc, attempt, calls, df, collected, all_data, ret,
          fn, warned, full_data_list, full_data, cache, age, ncalls, fetches, latest_data>>

Tasks == 1..NumTickers

Prefix(seq, n) == [i \in 1..n |-> seq[i]]

NoTasks ==
    /\ pc = [i \in Tasks |-> "none"]
    /\ attempt = [i \in Tasks |-> 0]
    /\ calls = [i \in Tasks |-> 0]
    /\ df = [i \in Tasks |-> EmptyFrame]
    /\ ticker = [i \in Tasks |-> "none"]
    /\ futures = <<>>
    /\ collected = {}
    /\ all_data = <<>>
    /\ ret = <<>>
    /\ warned = [i \in Tasks |-> 0]
    /\ full_data_list = <<>>
    /\ full_data = <<>>

\* no call of get_latest_data yet, nothing cached
NoCache ==
    /\ cache = <<>>
    /\ age = 0
    /\ ncalls = 0
    /\ fetches = 0
    /\ latest_data = <<>>

\* fetch_all_latest(top_tickers) is entered, on a prefix of TOP_SP500_TICKERS;
\* each ticker has its own stub
Init ==
    /\ NoTasks
    /\ NoCache
    /\ fn = "fetch_all_latest"
    /\ \E n \in 1..NumTickers : top_tickers = Prefix(TOP_SP500_TICKERS, n)
    /\ feed = [t \in {TOP_SP500_TICKERS[i] : i \in 1..NumTickers} |-> TickerOutcomes(t)]
    /\ latest_only = TRUE
    /\ retries = DefaultRetries
    /\ mpc = "submit"

(***************************************************************************)
(* update_ticker_data, one step per attempt and one per sleep.             *)
(***************************************************************************)
\* a cell that holds the ticker symbol t
Sym(t) == [k |-> "ticker", n |-> TickerNo(t), d |-> 1]

\* df['Ticker'] = ticker
set_ticker(frame, t) ==
    [columns |-> frame.columns \cup {"Ticker"},
     rows    |-> [j \in 1..Len(frame.rows) |-> AddCol(frame.rows[j], "Ticker", Sym(t))]]

\* what the caller gets for a frame update_ticker_data returned: fetch_full
\* (lines 98-102) tags a frame that has rows with its ticker, fetch (lines
\* 55-56) and a direct call hand it on as it is
handed_on(f, t, frame) ==
    IF f = "fetch_full" /\ ~empty(frame) THEN set_ticker(frame, t) ELSE frame

\* the final st.warning indented into the loop: it is emitted on every pass
NextIteration_warns_in_loop(i) ==
    /\ attempt' = [attempt EXCEPT ![i] = @ + 1]
    /\ warned' = [warned EXCEPT ![i] = @ + 1]
    /\ IF has_next(attempt[i], retries)
       THEN /\ pc' = [pc EXCEPT ![i] = "download"]
            /\ df' = df
       ELSE /\ pc' = [pc EXCEPT ![i] = "done"]
            /\ df' = [df EXCEPT ![i] = handed_on(fn, ticker[i], EmptyFrame)]

\* the loop moves past a failed attempt: next iteration, or the final
\* st.warning of line 48 and `return pd.DataFrame()`
NextIteration(i) ==
    /\ attempt' = [attempt EXCEPT ![i] = @ + 1]
    /\ IF has_next(attempt[i], retries)
       THEN /\ pc' = [pc EXCEPT ![i] = "download"]
            /\ df' = df
            /\ warned' = warned
       ELSE /\ pc' = [pc EXCEPT ![i] = "done"]
            /\ df' = [df EXCEPT ![i] = handed_on(fn, ticker[i], EmptyFrame)]
            /\ warned' = [warned EXCEPT ![i] = @ + 1]

\* an attempt that downloads twice: once to test `.empty`, once for the data
Attempt_downloads_twice(i) ==
    /\ pc[i] = "download"
    /\ \E o \in feed[ticker[i]] :
        LET a == try_body(o, latest_only)
        IN  /\ calls' = [calls EXCEPT ![i] = @ + 2]
            /\ CASE a.st = "return" ->
                      /\ pc' = [pc EXCEPT ![i] = "done"]
                      /\ df' = [df EXCEPT ![i] = handed_on(fn, ticker[i], a.data)]
                      /\ UNCHANGED <<attempt, warned>>
                 [] a.st = "continue" -> NextIteration(i)
                 [] a.st = "raise" ->
                      /\ pc' = [pc EXCEPT ![i] = IF caught(a.exc) THEN "sleep" ELSE "raised"]
                      /\ UNCHANGED <<df, attempt, warned>>
    /\ UNCHANGED <<feed, top_tickers, latest_only, retries, mpc, futures, ticker,
                   collected, all_data, ret, fn, full_vars, cache_vars>>

\* a worker that stores its frame in the shared collection itself
Attempt_writes_in_place(i) ==
    /\ pc[i] = "download"
    /\ \E o \in feed[ticker[i]] :
        LET a == try_body(o, latest_only)
        IN  /\ calls' = [calls EXCEPT ![i] = @ + 1]
            /\ CASE a.st = "return" ->
                      /\ pc' = [pc EXCEPT ![i] = "done"]
                      /\ df' = [df EXCEPT ![i] = handed_on(fn, ticker[i], a.data)]
                      /\ all_data' = Append(all_data, [Ticker |-> ticker[i], df |-> a.data])
                      /\ UNCHANGED <<attempt, warned>>
                 [] a.st = "continue" -> NextIteration(i) /\ all_data' = all_data
                 [] a.st = "raise" ->
                      /\ pc' = [pc EXCEPT ![i] = IF caught(a.exc) THEN "sleep" ELSE "raised"]
                      /\ UNCHANGED <<df, attempt, warned, all_data>>
    /\ UNCHANGED <<feed, top_tickers, latest_only, retries, mpc, futures, ticker,
                   collected, ret, fn, full_vars, cache_vars>>

\* lines 13-45: yf.download and the rest of the try block, up to `return data`
\* (handed on by the pool's callable), `continue`, or the st.warning of the
\* except block
Attempt(i) ==
    /\ pc[i] = "download"
    /\ \E o \in feed[ticker[i]] :
        LET a == try_body(o, latest_only)
        IN  /\ calls' = [calls EXCEPT ![i] = @ + 1]
            /\ CASE a.st = "return" ->
                      /\ pc' = [pc EXCEPT ![i] = "done"]
                      /\ df' = [df EXCEPT ![i] = handed_on(fn, ticker[i], a.data)]
                      /\ UNCHANGED <<attempt, warned>>
                 [] a.st = "continue" -> NextIteration(i)
                 [] a.st = "raise" ->
                      /\ pc' = [pc EXCEPT ![i] = IF caught(a.exc) THEN "sleep" ELSE "raised"]
                      /\ UNCHANGED <<df, attempt, warned>>
    /\ UNCHANGED <<feed, top_tickers, latest_only, retries, mpc, futures, ticker,
                   collected, all_data, ret, fn, full_vars, cache_vars>>

\* line 46: time.sleep(delay) of the except block returns
Sleep(i) ==
    /\ pc[i] = "sleep"
    /\ NextIteration(i)
    /\ UNCHANGED <<feed, top_tickers, latest_only, retries, mpc, futures, ticker,
                   calls, collected, all_data, ret, fn, full_vars, cache_vars>>

(***************************************************************************)
(* fetch_all_latest: submit every ticker to the pool, take the results in  *)
(* the order of the dict `futures`, concatenate.                           *)
(***************************************************************************)
\* a closure over the loop variable, read after the loop: every call fetches the last ticker
submit_arg_late_bound(tickers, i) == tickers[Len(tickers)]

\* executor.submit(fetch, t): the ticker the i-th submitted call fetches
submit_arg(tickers, i) == tickers[i]

\* line 59, one `executor.submit(fetch, t)` of the dict comprehension
Submit ==
    /\ mpc = "submit"
    /\ LET i == Len(futures) + 1
       IN  /\ futures' = Append(futures, top_tickers[i])
           /\ ticker' = [ticker EXCEPT ![i] = submit_arg(top_tickers, i)]
           /\ pc' = [pc EXCEPT ![i] = "queued"]
           /\ mpc' = IF i = Len(top_tickers) THEN "collect" ELSE "submit"
    /\ UNCHANGED <<feed, top_tickers, latest_only, retries, attempt, calls, df,
                   collected, all_data, ret, fn, warned, full_vars, cache_vars>>

\* the calls a pool thread is executing
Running == {i \in Tasks : pc[i] \in {"download", "sleep"}}

\* a pool that starts a thread for every work item (no max_workers)
Start_thread_per_item(i) ==
    /\ pc[i] = "queued"
    /\ \A j \in 1..(i - 1) : pc[j] # "queued"
    /\ pc' = [pc EXCEPT ![i] = "download"]
    /\ UNCHANGED <<feed, top_tickers, latest_only, retries, mpc, futures, ticker,
                   attempt, calls, df, collected, all_data, ret,
                   fn, warned, full_vars, cache_vars>>

\* a pool thread takes the oldest queued work item; the pool has max_workers threads
Start(i) ==
    /\ pc[i] = "queued"
    /\ \A j \in 1..(i - 1) : pc[j] # "queued"
    /\ Cardinality(Running) < max_workers
    /\ pc' = [pc EXCEPT ![i] = "download"]
    /\ UNCHANGED <<feed, top_tickers, latest_only, retries, mpc, futures, ticker,
                   attempt, calls, df, collected, all_data, ret,
                   fn, warned, full_vars, cache_vars>>

\* `for future in as_completed(futures)`: any future not handled yet
as_completed(done, n) == {i \in 1..n : i \notin done}

\* `for future in futures`: the futures the loop may handle next (dict order)
for_future(done, n) == {i \in 1..n : i \notin done /\ \A j \in 1..(i - 1) : j \in done}

\* the test left out: every frame is stored
keeps_every_frame(frame) == TRUE

\* `if not df.empty`
keeps(frame) == ~empty(frame)

HasKey(d, key) == \E j \in 1..Len(d) : d[j].Ticker = key

\* d[key] = frame on a dict: a new key goes last, an old key keeps its place
put(d, key, frame) ==
    IF HasKey(d, key)
    THEN [j \in 1..Len(d) |-> IF d[j].Ticker = key THEN [d[j] EXCEPT !.df = frame] ELSE d[j]]
    ELSE Append(d, [Ticker |-> key, df |-> frame])

\* lines 60-64, one iteration: future.result() returns once the call has
\* returned, or re-raises what the call raised
Collect(i) ==
    /\ fn = "fetch_all_latest"
    /\ mpc = "collect"
    /\ i \in for_future(collected, Len(futures))
    /\ pc[i] \in {"done", "raised"}
    /\ collected' = collected \cup {i}
    /\ IF pc[i] = "raised"
       THEN /\ mpc' = "raised"
            /\ all_data' = all_data
       ELSE /\ mpc' = mpc
            /\ all_data' = IF keeps(df[i]) THEN put(all_data, futures[i], df[i])
                                           ELSE all_data
    /\ UNCHANGED <<feed, top_tickers, latest_only, retries, futures, ticker,
                   pc, attempt, calls, df, ret, fn, warned, full_vars, cache_vars>>

\* the rows of the frames of d, in dict order, each under its key
RECURSIVE concat(_)
concat(d) ==
    IF d = <<>> THEN <<>>
    ELSE [j \in 1..Len(d[1].df.rows) |-> [Ticker |-> d[1].Ticker, row |-> d[1].df.rows[j]]]
         \o concat(Tail(d))

\* lines 66-70: pd.concat(all_data, ...) when all_data is not empty, else pd.DataFrame()
Concat ==
    /\ fn = "fetch_all_latest"
    /\ mpc = "collect"
    /\ collected = 1..Len(futures)
    /\ ret' = IF all_data # <<>> THEN concat(all_data) ELSE <<>>
    /\ mpc' = "done"
    /\ UNCHANGED <<feed, top_tickers, latest_only, retries, futures, ticker,
                   pc, attempt, calls, df, collected, all_data,
                   fn, warned, full_vars, cache_vars>>

Next ==
    \/ Submit
    \/ \E i \in Tasks : Start(i)
    \/ \E i \in Tasks : Attempt(i)
    \/ \E i \in Tasks : Sleep(i)
    \/ \E i \in Tasks : Collect(i)
    \/ Concat

Spec == Init /\ [][Next]_vars

(***************************************************************************)
(* The 30-day fetch of the script (lines 96-116): fetch_full on a pool of  *)
(* its own, the results appended to full_data_list in the order of the     *)
(* dict `futures`.                                                         *)
(***************************************************************************)
\* lines 106-109, one iteration: `if df is not None and not df.empty: append`
CollectFull(i) ==
    /\ fn = "fetch_full"
    /\ mpc = "collect"
    /\ i \in for_future(collected, Len(futures))
    /\ pc[i] \in {"done", "raised"}
    /\ collected' = collected \cup {i}
    /\ IF pc[i] = "raised"
       THEN /\ mpc' = "raised"
            /\ full_data_list' = full_data_list
       ELSE /\ mpc' = mpc
            /\ full_data_list' = IF keeps(df[i]) THEN Append(full_data_list, df[i])
                                                  ELSE full_data_list
    /\ UNCHANGED <<feed, top_tickers, latest_only, retries, futures, ticker,
                   pc, attempt, calls, df, all_data, ret, fn, warned, full_data, cache_vars>>

\* pd.concat(full_data_list).reset_index(drop=True): the rows of the frames, in list order
RECURSIVE concat_list(_)
concat_list(l) == IF l = <<>> THEN <<>> ELSE l[1].rows \o concat_list(Tail(l))

\* lines 111-116: the frames are concatenated when there is one, else a warning
ConcatFull ==
    /\ fn = "fetch_full"
    /\ mpc = "collect"
    /\ collected = 1..Len(futures)
    /\ full_data' = IF full_data_list # <<>> THEN concat_list(full_data_list) ELSE <<>>
    /\ mpc' = "done"
    /\ UNCHANGED <<feed, top_tickers, latest_only, retries, futures, ticker,
                   pc, attempt, calls, df, collected, all_data, ret,
                   fn, warned, full_data_list, cache_vars>>

\* the 30-day fetch is entered, on a prefix of TOP_SP500_TICKERS
InitFull ==
    /\ NoTasks
    /\ NoCache
    /\ fn = "fetch_full"
    /\ \E n \in 1..NumTickers : top_tickers = Prefix(TOP_SP500_TICKERS, n)
    /\ feed = [t \in {TOP_SP500_TICKERS[i] : i \in 1..NumTickers} |-> TickerOutcomes(t)]
    /\ latest_only = FALSE
    /\ retries = DefaultRetries
    /\ mpc = "submit"

InitBatch == Init \/ InitFull

NextBatch ==
    \/ Submit
    \/ \E i \in Tasks : Start(i)
    \/ \E i \in Tasks : Attempt(i)
    \/ \E i \in Tasks : Sleep(i)
    \/ \E i \in Tasks : Collect(i)
    \/ Concat
    \/ \E i \in Tasks : CollectFull(i)
    \/ ConcatFull

\* either pool of the script: the latest-day fetch or the 30-day fetch
SpecBatch == InitBatch /\ [][NextBatch]_vars

(***************************************************************************)
(* get_latest_data behind `@st.cache_data(ttl=600)` (lines 73-78). The     *)
(* function takes no argument, so the cache holds one entry: the value the *)
(* function returned, kept from the moment it is stored until it is ttl    *)
(* seconds old. A script run calls the function once, at line 78; runs     *)
(* follow one another.                                                     *)
(***************************************************************************)
\* an entry that never expires (no ttl given to st.cache_data)
fresh_forever(a) == TRUE

\* the entry is served while it is younger than ttl
fresh(a) == a < ttl

\* the ages at which a script run can find the entry
Ages == {1, ttl - 1, ttl, ttl + 1}

\* line 78 in a script run that finds a live entry: the stored value is
\* returned, the body of get_latest_data is not run
Hit ==
    /\ mpc = "idle"
    /\ ncalls < MaxCalls
    /\ cache # <<>> /\ fresh(age)
    /\ ncalls' = ncalls + 1
    /\ latest_data' = cache
    /\ UNCHANGED <<feed, top_tickers, latest_only, retries, mpc, futures, ticker,
                   pc, attempt, calls, df, collected, all_data, ret,
                   fn, warned, full_vars, cache, age, fetches>>

\* line 78 in a script run that finds no entry, or an expired one: the body
\* runs, fetch_all_latest(TOP_SP500_TICKERS) is entered (line 75)
Miss ==
    /\ mpc = "idle"
    /\ ncalls < MaxCalls
    /\ ~(cache # <<>> /\ fresh(age))
    /\ ncalls' = ncalls + 1
    /\ fetches' = fetches + 1
    /\ cache' = <<>>
    /\ age' = 0
    /\ pc' = [i \in Tasks |-> "none"]
    /\ attempt' = [i \in Tasks |-> 0]
    /\ calls' = [i \in Tasks |-> 0]
    /\ df' = [i \in Tasks |-> EmptyFrame]
    /\ ticker' = [i \in Tasks |-> "none"]
    /\ warned' = [i \in Tasks |-> 0]
    /\ futures' = <<>>
    /\ collected' = {}
    /\ all_data' = <<>>
    /\ ret' = <<>>
    /\ mpc' = "submit"
    /\ UNCHANGED <<feed, top_tickers, latest_only, retries, fn, full_vars, latest_data>>

\* fetch_all_latest has returned: the value is stored and handed to line 78
Store ==
    /\ mpc = "done"
    /\ ncalls > 0
    /\ cache' = <<ret>>
    /\ age' = 0
    /\ latest_data' = <<ret>>
    /\ mpc' = "idle"
    /\ UNCHANGED <<feed, top_tickers, latest_only, retries, futures, ticker,
                   pc, attempt, calls, df, collected, all_data, ret,
                   fn, warned, full_vars, ncalls, fetches>>

\* time passes between two script runs
Tick ==
    /\ mpc = "idle"
    /\ cache # <<>>
    /\ \E a \in Ages : a > age /\ age' = a
    /\ UNCHANGED <<feed, top_tickers, latest_only, retries, mpc, futures, ticker,
                   pc, attempt, calls, df, collected, all_data, ret,
                   fn, warned, full_vars, cache, ncalls, fetches, latest_data>>

\* the script starts; nothing is cached
InitCache ==
    /\ NoTasks
    /\ NoCache
    /\ fn = "fetch_all_latest"
    /\ top_tickers = Prefix(TOP_SP500_TICKERS, CacheTickers)
    /\ feed = [t \in {TOP_SP500_TICKERS[i] : i \in 1..NumTickers} |-> TickerOutcomes(t)]
    /\ latest_only = TRUE
    /\ retries = DefaultRetries
    /\ mpc = "idle"

NextCache ==
    \/ Hit
    \/ Miss
    \/ Tick
    \/ Submit
    \/ \E i \in Tasks : Start(i)
    \/ \E i \in Tasks : Attempt(i)
    \/ \E i \in Tasks : Sleep(i)
    \/ \E i \in Tasks : Collect(i)
    \/ Concat
    \/ Store

SpecCache == InitCache /\ [][NextCache]_vars

(***************************************************************************)
(* update_ticker_data called directly, once, by the calling thread, with   *)
(* any latest_only and any retries >= 1.                                   *)
(***************************************************************************)
\* the stubs of the direct call: one that serves the same outcome on every
\* call, for each outcome, and the per-ticker stub that serves any of its outcomes
FetchStubs == {{o} : o \in AllOutcomes} \cup {TickerOutcomes(TOP_SP500_TICKERS[1])}

InitFetch ==
    /\ top_tickers = <<>>
    /\ \E stub \in FetchStubs : feed = [t \in {TOP_SP500_TICKERS[1]} |-> stub]
    /\ latest_only \in BOOLEAN
    /\ retries \in 1..MaxRetries
    /\ mpc = "call"
    /\ pc = [i \in Tasks |-> IF i = 1 THEN "download" ELSE "none"]
    /\ ticker = [i \in Tasks |-> IF i = 1 THEN TOP_SP500_TICKERS[1] ELSE "none"]
    /\ attempt = [i \in Tasks |-> 0]
    /\ calls = [i \in Tasks |-> 0]
    /\ df = [i \in Tasks |-> EmptyFrame]
    /\ futures = <<>>
    /\ collected = {}
    /\ all_data = <<>>
    /\ ret = <<>>
    /\ warned = [i \in Tasks |-> 0]
    /\ full_data_list = <<>>
    /\ full_data = <<>>
    /\ NoCache
    /\ fn = "update_ticker_data"

NextFetch ==
    \/ \E i \in Tasks : Attempt(i)
    \/ \E i \in Tasks : Sleep(i)

SpecFetch == InitFetch /\ [][NextFetch]_vars

(***************************************************************************)
(* Properties.                                                             *)
(***************************************************************************)
\* the calls of update_ticker_data that have been entered
Entered == {i \in Tasks : pc[i] \notin {"none", "queued"}}

\* the stub that answers every call with an empty response
AlwaysEmpty == {Served(RawFrame(<<>>))}

\* C1: on a data source that returns an empty response on every call,
\* update_ticker_data calls the source exactly `retries` times (3 times for
\* retries = 3), never more, and then returns the empty frame.
C1_RetryExhaustion ==
    \A i \in Entered :
        feed[ticker[i]] = AlwaysEmpty =>
            /\ pc[i] \in {"download", "done"}
            /\ pc[i] = "download" => calls[i] < retries
            /\ pc[i] = "done" => calls[i] = retries /\ df[i] = EmptyFrame

C1_Witness ==
    \E i \in Entered :
        /\ feed[ticker[i]] = AlwaysEmpty
        /\ retries = 3
        /\ pc[i] = "done"
        /\ calls[i] = 3
        /\ df[i] = EmptyFrame

\* C2: update_ticker_data never lets an exception reach its caller, whatever
\* the source does on each attempt (empty response, all rows invalid,
\* transport fault, missing column, good data): a call that has ended has
\* returned either a frame with rows or the empty frame.
C2_NeverRaises ==
    /\ mpc # "raised"
    /\ \A i \in Tasks :
        /\ pc[i] # "raised"
        /\ pc[i] = "done" => (df[i] = EmptyFrame \/ ~empty(df[i]))

\* every attempt ended in an exception, and the call returned the empty frame
C2_Witness ==
    \E i \in Entered :
        /\ \A o \in feed[ticker[i]] : try_body(o, latest_only).st = "raise"
        /\ pc[i] = "done"
        /\ calls[i] = retries
        /\ df[i] = EmptyFrame

\* the step is an attempt of call i that failed (it did not return data)
FailedAttempt(i) ==
    /\ calls'[i] = calls[i] + 1
    /\ ~(pc'[i] = "done" /\ ~empty(df'[i]))

\* C3: after every failed attempt, whatever the kind of failure, the call
\* sleeps before the next attempt, and it does not sleep after its last attempt.
C3_SleepAfterEveryFailure ==
    [][\A i \in Tasks :
          FailedAttempt(i) =>
              IF calls'[i] < retries THEN pc'[i] = "sleep" ELSE pc'[i] # "sleep"]_vars

\* the keys of ret, and the rows ret holds under a key
HasRows(r, key) == \E j \in 1..Len(r) : r[j].Ticker = key
RowsUnder(r, key) ==
    LET sel == SelectSeq(r, LAMBDA x : x.Ticker = key)
    IN  [j \in 1..Len(sel) |-> sel[j].row]

Submitted == 1..Len(futures)

\* C4: the result of fetch_all_latest holds an entry for a ticker if and only
\* if that ticker's fetch returned a frame with rows; a ticker whose fetch
\* used up its retries is left out, and the result is empty if and only if
\* every ticker failed.
C4_OmitsFailedTickers ==
    /\ \A i \in collected : HasKey(all_data, futures[i]) <=> ~empty(df[i])
    /\ \A j \in 1..Len(all_data) :
          /\ ~empty(all_data[j].df)
          /\ \E i \in collected : futures[i] = all_data[j].Ticker
    /\ mpc = "done" =>
          /\ \A i \in Submitted : HasRows(ret, futures[i]) <=> ~empty(df[i])
          /\ \A j \in 1..Len(ret) : \E i \in Submitted : futures[i] = ret[j].Ticker
          /\ ret = <<>> <=> \A i \in Submitted : empty(df[i])

\* one ticker used up its retries and is left out, another is in the result
C4_Witness ==
    /\ mpc = "done"
    /\ \E i, j \in Submitted :
          /\ empty(df[i]) /\ calls[i] = retries /\ ~HasRows(ret, futures[i])
          /\ ~empty(df[j]) /\ HasRows(ret, futures[j])

\* what update_ticker_data(t, latest_only=True) returns when it is the only
\* call and the source serves t's data
Alone(t) == try_body(Served(GoodFrame(t)), TRUE).data

\* C5: in the batch, the outcome of a ticker depends on the source outcomes
\* of that ticker only: under every interleaving of the pool threads and
\* every failure pattern of the other tickers, a call that returned data
\* returned the rows it returns when fetched alone, and the result holds
\* exactly those rows under the ticker.
C5_TickersIndependent ==
    /\ \A i \in Submitted :
          pc[i] = "done" => (df[i] = EmptyFrame \/ df[i] = Alone(futures[i]))
    /\ mpc = "done" =>
          \A i \in Submitted :
              ~empty(df[i]) => RowsUnder(ret, futures[i]) = Alone(futures[i]).rows

\* every other ticker failed (retries used up), the last one is in the result
C5_Witness ==
    /\ mpc = "done"
    /\ Len(futures) >= 3
    /\ \A i \in Submitted : i < Len(futures) => (empty(df[i]) /\ calls[i] = retries)
    /\ RowsUnder(ret, futures[Len(futures)]) = Alone(futures[Len(futures)]).rows

\* position of a ticker in the input list
Pos(t) == CHOOSE i \in 1..Len(top_tickers) : top_tickers[i] = t

\* C8: the tickers of the result of fetch_all_latest come in the order of the
\* input list (restricted to the tickers that succeeded), in whatever order
\* the calls complete.
C8_InputOrder ==
    /\ \A a, b \in 1..Len(all_data) :
          a < b => Pos(all_data[a].Ticker) < Pos(all_data[b].Ticker)
    /\ \A a, b \in 1..Len(ret) :
          a < b => Pos(ret[a].Ticker) <= Pos(ret[b].Ticker)

\* two tickers in the result, the first of which needed more attempts than the second
C8_Witness ==
    /\ mpc = "done"
    /\ \E i, j \in Submitted :
          /\ i < j
          /\ calls[i] = retries /\ calls[j] = 1
          /\ HasRows(ret, futures[i]) /\ HasRows(ret, futures[j])

(***************************************************************************)
(* Properties of the rows returned, stated against the response served.    *)
(* They are read off the stubs that serve one and the same outcome on      *)
(* every call, where the response behind a return value is known.          *)
(***************************************************************************)
\* the call's stub serves a single outcome, and it is a frame
OneFrame(i) ==
    /\ Cardinality(feed[ticker[i]]) = 1
    /\ \A o \in feed[ticker[i]] : o.kind = "frame"

\* that frame
TheFrame(i) == (CHOOSE o \in feed[ticker[i]] : TRUE).frame

\* a price field that holds a number, or a string that spells one
Usable(cell) == cell.k \in {"num", "numstr"}

\* the dates of the rows of a response whose four price fields are usable
CleanDates(raw) ==
    {raw.index[j] : j \in {k \in 1..Len(raw.rows) :
                             \A c \in price_cols : c \in raw.columns /\ Usable(raw.rows[k][c])}}

SetMax(S) == CHOOSE x \in S : \A y \in S : y <= x

RowsOf(i) == {df[i].rows[j] : j \in 1..Len(df[i].rows)}
DatesOf(i) == {r["Date"].n : r \in RowsOf(i)}

Returned == {i \in Tasks : pc[i] = "done"}

\* C6: with latest_only=True, update_ticker_data returns exactly one row
\* whenever the response of the successful attempt has a row left after
\* cleaning, and that row is the one with the greatest date among the
\* cleaned rows.
C6_LatestOnlyOneRow ==
    \A i \in Returned :
        latest_only =>
            /\ ~empty(df[i]) => Len(df[i].rows) = 1
            /\ (OneFrame(i) /\ CleanDates(TheFrame(i)) # {}) =>
                  /\ Len(df[i].rows) = 1
                  /\ df[i].rows[1]["Date"] = Num(SetMax(CleanDates(TheFrame(i))))

\* a response with two clean rows, reduced to the later one
C6_Witness ==
    \E i \in Returned :
        /\ latest_only
        /\ OneFrame(i)
        /\ Cardinality(CleanDates(TheFrame(i))) = 2
        /\ Len(df[i].rows) = 1
        /\ df[i].rows[1]["Date"] = Num(2)

\* C7: a row with a missing or non-numeric price field never appears in a
\* returned frame: it is dropped before the derived columns are computed
\* (the rows returned are rows of the response with four usable prices, and
\* their derived columns are numbers), and when dropping leaves no row the
\* attempt counts as failed: the call goes on to the next attempt and
\* returns the empty frame only once the attempts are used up.
C7_InvalidRowsDropped ==
    \A i \in Entered :
        /\ pc[i] = "done" =>
              \A r \in RowsOf(i) :
                  /\ \A c \in price_cols : IsNum(r[c])
                  /\ IsNum(r["Upward_Move"]) /\ IsNum(r["Daily_Range"])
        /\ (pc[i] = "done" /\ OneFrame(i) /\ ~empty(df[i])) =>
              /\ DatesOf(i) \subseteq CleanDates(TheFrame(i))
              /\ ~latest_only => DatesOf(i) = CleanDates(TheFrame(i))
        /\ (OneFrame(i) /\ Len(TheFrame(i).rows) > 0
                /\ price_cols \subseteq TheFrame(i).columns
                /\ CleanDates(TheFrame(i)) = {}) =>
              /\ pc[i] \in {"download", "done"}
              /\ pc[i] = "download" => calls[i] < retries
              /\ pc[i] = "done" => calls[i] = retries /\ df[i] = EmptyFrame

\* a response of two rows, one with an unusable price: the other one is returned
C7_Witness ==
    \E i \in Returned :
        /\ ~latest_only
        /\ OneFrame(i)
        /\ Len(TheFrame(i).rows) = 2
        /\ \E c \in price_cols : TheFrame(i).rows[2][c] = Text
        /\ DatesOf(i) = {1}

\* C9 as claimed: for every row returned, upward_move is >= 0 and equals
\* high minus low.
C9_UpwardMoveNonNegative ==
    \A i \in Returned :
        \A r \in RowsOf(i) :
            /\ r["Upward_Move"] = Num(r["High"].n - r["Low"].n)
            /\ r["Upward_Move"].n >= 0

\* C9, amended: for every row returned, upward_move equals high minus low
\* exactly; it is >= 0 for the rows with high >= low and negative for the
\* rows with high < low, which the cleaning does not remove.
C9_UpwardMoveIsHighMinusLow ==
    \A i \in Returned :
        \A r \in RowsOf(i) :
            /\ r["Upward_Move"] = Num(r["High"].n - r["Low"].n)
            /\ r["High"].n >= r["Low"].n => r["Upward_Move"].n >= 0
            /\ r["High"].n < r["Low"].n => r["Upward_Move"].n < 0

\* a frame returned with a row with high > low and a row with high < low
C9_Witness ==
    \E i \in Returned :
        /\ \E r \in RowsOf(i) : r["High"].n > r["Low"].n /\ r["Upward_Move"].n > 0
        /\ \E r \in RowsOf(i) : r["High"].n < r["Low"].n /\ r["Upward_Move"].n < 0

\* C10: for every row returned, upward_move_pct is a finite number (never
\* infinite, never NaN), and it is 0 when low is 0, whether high is 0 too
\* or not.
C10_ZeroLowGivesZeroPct ==
    \A i \in Returned :
        \A r \in RowsOf(i) :
            /\ IsNum(r["Upward_Move_%"])
            /\ r["Upward_Move_%"].d > 0
            /\ r["Low"].n = 0 => r["Upward_Move_%"] = Num(0)

\* a frame returned with a row with low = high = 0 and a row with low = 0 < high
C10_Witness ==
    \E i \in Returned :
        /\ \E r \in RowsOf(i) : r["Low"].n = 0 /\ r["High"].n = 0 /\ r["Upward_Move_%"] = Num(0)
        /\ \E r \in RowsOf(i) : r["Low"].n = 0 /\ r["High"].n > 0 /\ r["Upward_Move_%"] = Num(0)

\* C11: during the fan-out, of the latest-day fetch or of the 30-day fetch,
\* at most 3 ticker fetches are executing at the same time, however many
\* tickers are submitted.
C11_AtMostThreeRunning == Cardinality(Running) <= 3

\* three fetches executing while a fourth ticker waits in the queue
C11_Witness ==
    /\ Len(futures) >= 4
    /\ Cardinality(Running) = 3
    /\ \E i \in Tasks : pc[i] = "queued"

\* C12: update_ticker_data emits the "failed after N attempts" warning
\* exactly once when its attempts are used up and it returns the empty
\* frame, and never on a call that returns data (nor before the call ends).
C12_FinalWarningOnce ==
    \A i \in Tasks :
        warned[i] = IF pc[i] = "done" /\ empty(df[i]) THEN 1 ELSE 0

\* three attempts used up, one warning, and the empty frame returned
C12_Witness ==
    \E i \in Returned :
        /\ retries = 3
        /\ calls[i] = 3
        /\ empty(df[i])
        /\ warned[i] = 1

\* C13: in the fan-out the pool threads never write the shared result
\* collection (all_data, full_data_list): a step of a call changes that
\* call's own state only, and every write of the collection is a step of the
\* collecting loop of the calling thread, in which no call moves.
C13_OnlyCollectorWrites ==
    [][/\ (all_data' # all_data \/ full_data_list' # full_data_list) =>
              /\ mpc = "collect"
              /\ collected' # collected
              /\ pc' = pc /\ df' = df /\ calls' = calls /\ attempt' = attempt
       /\ \A i \in Tasks :
              pc'[i] # pc[i] =>
                  \A j \in Tasks \ {i} :
                      pc'[j] = pc[j] /\ df'[j] = df[j] /\ calls'[j] = calls[j]]_vars

\* the collecting loop has stored a result while pool threads are still fetching
C13_Witness ==
    /\ (all_data # <<>> \/ full_data_list # <<>>)
    /\ Running # {}

\* the steps call i can still take: two per attempt left (the download and
\* the sleep), one less once the download of the current attempt is behind it
StepsLeft(i) ==
    CASE pc[i] = "download" -> 2 * (retries - attempt[i])
      [] pc[i] = "sleep"    -> 2 * (retries - attempt[i]) - 1
      [] OTHER              -> 0

\* what holds of call i at every point of its run
CallInv(i) ==
    /\ calls[i] <= retries
    /\ calls[i] = attempt[i]
          + (IF pc[i] = "sleep" \/ (pc[i] = "done" /\ ~empty(df[i])) THEN 1 ELSE 0)
    /\ (OneFrame(i) /\ CleanDates(TheFrame(i)) # {} /\ pc[i] = "done") =>
          calls[i] = 1 /\ ~empty(df[i])
    /\ StepsLeft(i) >= 0
    /\ pc[i] \in {"download", "sleep", "done"}
    /\ pc[i] = "download" => feed[ticker[i]] # {}

\* C14: whatever the data source does, update_ticker_data ends after at most
\* `retries` calls of the source; it calls the source once per attempt, and
\* not again after the first attempt that yields a clean row, whose data it
\* returns. Termination: a call that has not ended is at a download the
\* source answers or in a sleep, so it can take a step; every step of it
\* lowers StepsLeft, which is never negative; an ended call takes no step.
C14_TerminatesWithinRetries ==
    [][\A i \in Entered :
        /\ CallInv(i) /\ CallInv(i)'
        /\ pc[i] = "done" =>
              pc'[i] = "done" /\ calls'[i] = calls[i] /\ df'[i] = df[i]
        /\ (pc'[i] # pc[i] \/ calls'[i] # calls[i] \/ attempt'[i] # attempt[i]) =>
              /\ StepsLeft(i)' < StepsLeft(i)
              /\ calls'[i] \in {calls[i], calls[i] + 1}]_vars

\* the call ended with data on its last attempt, after exactly `retries` calls
C14_Witness ==
    \E i \in Returned :
        /\ retries = 3
        /\ calls[i] = 3
        /\ ~empty(df[i])

\* C15: a call of get_latest_data made less than 600 seconds after a result
\* was stored returns the stored result, the empty one included, and starts
\* no fetch and no call of the data source; a call made more than 600
\* seconds after, or with nothing stored, fetches again. The source is
\* called only inside a fetch, and what is stored is what the fetch returned.
C15_CacheTTL ==
    [][/\ ncalls' = ncalls + 1 =>
            /\ (cache # <<>> /\ age < 600) =>
                  /\ latest_data' = cache
                  /\ fetches' = fetches /\ calls' = calls /\ pc' = pc
                  /\ cache' = cache /\ mpc' = "idle"
            /\ (cache = <<>> \/ age > 600) =>
                  /\ fetches' = fetches + 1
                  /\ mpc' = "submit"
       /\ calls' # calls => mpc # "idle" \/ ncalls' = ncalls + 1
       /\ (cache = <<>> /\ cache' # <<>>) =>
              cache' = <<ret>> /\ latest_data' = cache' /\ age' = 0]_vars

\* one fetch, which came back empty; 599 seconds later a second call was
\* served the empty result from the cache
C15_Witness ==
    /\ cache = << <<>> >>
    /\ age = 599
    /\ fetches = 1
    /\ ncalls = 2
    /\ latest_data = cache
    /\ mpc = "idle"

====
